---- MODULE Spec2Model ----
(***************************************************************************)
(* Instance lifecycle and console streaming of the daemon (src/src/server.js).*)
(* The Node.js event loop runs one callback at a time, so every handler,     *)
(* up to its first await, is one atomic action; what it awaits (tree-kill's  *)
(* callback, the 2000 ms timer) resumes it in a later action.                 *)
(***************************************************************************)
EXTENDS Integers, Sequences, FiniteSets, Bags, TLC

\* ------------------------------------------------------------------ bounds
MaxProcs == 2        \* child processes spawned in one behaviour
MaxBufChunks == 1050 \* output chunks one process produces (BufSpec)
MaxPending == 1      \* tree-kill calls and restart requests in flight
MaxTicks == 1        \* steps of the clock in one behaviour
MaxConsoleChunks == 52 \* output chunks one process produces (ConsoleSpec)
MaxHubChunks == 1    \* output chunks one process produces (HubSpec)
MaxHubWrites == 1    \* commands written to one process (HubSpec)
MaxWrites == 2       \* commands written to one process (CommandSpec)
MaxVersionTail == 1  \* characters added to a beginning of a table key (JavaSpec)

\* ------------------------------------------------------- program constants
LogCapacity == 1000  \* serverProcess.logs.length > 1000 -> shift()
SettleDelay == 2000  \* setTimeout(r, 2000) in restart
ReplayCount == 50    \* serverProcess.logs.slice(-50)
Null == -1           \* lastStarted: null

TickMs == SettleDelay      \* granularity of the clock, in ms

Ids == {"A", "B"}          \* req.params.id / uuidv4() values
SoloIds == {"A"}           \* the instance the single-instance behaviours use
Sockets == {"s1"}          \* the socket.io connection the lifecycle behaviours use
Clients == {"s1", "s2"}    \* socket.io connections
ExitCodes == {0, 1}        \* exitCode node-pty reports
Newline == "\n"
Commands == {<<"o", "p">>, <<"s", "a", "y">>}   \* command texts, character by character

VARIABLES
    servers,        \* config.servers: id -> [lastStarted]
    disk,           \* config/node.json as last written by saveConfig()
    uuids,          \* ids uuidv4() has handed out
    activeServers,  \* the Map activeServers: id -> pid of its serverProcess
    procs,          \* pid -> the child process and its serverProcess object
    nextPid,        \* the pid the next pty.spawn returns
    kills,          \* tree-kill calls of stop/delete whose signal is not yet sent
    restarts,       \* restart requests suspended at an await
    rooms,          \* socket.io rooms: connected socket -> set of ids joined
    now,            \* Date.now()
    resp,           \* the HTTP response the last step sent, or the error it logged
    emits,          \* the events the last step emitted, each to a room (an id) or a socket
    delivered       \* socket -> the output records it received since it last joined

vars == <<servers, disk, uuids, activeServers, procs, nextPid, kills, restarts,
          rooms, now, resp, emits, delivered>>

\* ----------------------------------------------------------------- helpers
MapSet(f, k, v) == [j \in (DOMAIN f) \cup {k} |-> IF j = k THEN v ELSE f[j]]

MapDelete(f, k) == [j \in (DOMAIN f) \ {k} |-> f[j]]

\* pending asynchronous operations complete in any order: a bag of them
BagAdd(b, r) == b (+) SetToBag({r})

BagRemove(b, r) == b (-) SetToBag({r})

EmptyMap == [j \in {} |-> Null]

Response(op, id, status, error, pid) ==
    [op |-> op, id |-> id, status |-> status, error |-> error, pid |-> pid]

\* a step that answers no HTTP request leaves no response behind
NoResponse == Response("none", "", 0, "", 0)

Pending == BagCardinality(kills) + BagCardinality(restarts)

\* pty.spawn + the serverProcess object literal; launcher names the handler whose
\* onData/onExit registrations the process carries.
NewProcess(id, launcher) ==
    [id |-> id, startTime |-> now, launcher |-> launcher, alive |-> TRUE,
     logs |-> <<>>, produced |-> 0, input |-> <<>>]

\* A child that has exited stays in the model only while its serverProcess
\* object is still referenced: by the Map or by a suspended restart handler.
Held(ps, as, rs) ==
    {p \in DOMAIN ps :
        \/ ps[p].alive
        \/ \E i \in DOMAIN as : as[i] = p
        \/ \E r \in BagToSet(rs) : r.old = p}

Collect(ps, as, rs) == [p \in Held(ps, as, rs) |-> ps[p]]

\* --------------------------------------------- getRequiredJavaVersion(...)
\* strings are sequences of characters
VersionChars == {"0", "1", "2", "3", "4", "5", "6", "7", "8", "9", "."}

\* Object.entries(JAVA_VERSION_MAP): no key is an array index, so the entries
\* come in the order they are written; a numeric key is its decimal string
JAVA_VERSION_MAP ==
    << <<<<"1", ".", "2", "1">>, 21>>,
       <<<<"1", ".", "2", "0", ".", "5">>, 21>>,
       <<<<"1", ".", "2", "0", ".", "4">>, 17>>,
       <<<<"1", ".", "2", "0">>, 17>>,
       <<<<"1", ".", "1", "9">>, 17>>,
       <<<<"1", ".", "1", "8">>, 17>>,
       <<<<"1", ".", "1", "7">>, 17>>,
       <<<<"1", ".", "1", "6">>, 11>>,
       <<<<"1", ".", "1", "5">>, 11>>,
       <<<<"1", ".", "1", "4">>, 11>>,
       <<<<"1", ".", "1", "3">>, 11>>,
       <<<<"1", ".", "1", "2">>, 8>> >>

DefaultJava == 17

\* mcVersion.startsWith(version)
StartsWith(s, prefix) ==
    /\ Len(prefix) <= Len(s)
    /\ SubSeq(s, 1, Len(prefix)) = prefix

\* the for loop from entry k on: the first entry whose key the string starts with
RECURSIVE ScanFrom(_, _)
ScanFrom(mcVersion, k) ==
    IF k > Len(JAVA_VERSION_MAP) THEN DefaultJava
    ELSE IF StartsWith(mcVersion, JAVA_VERSION_MAP[k][1]) THEN JAVA_VERSION_MAP[k][2]
    ELSE ScanFrom(mcVersion, k + 1)

\* the last entry of the table whose key the string starts with
getRequiredJavaVersionLastFirst(mcVersion) ==
    LET hits == {k \in 1..Len(JAVA_VERSION_MAP) :
                    StartsWith(mcVersion, JAVA_VERSION_MAP[k][1])}
    IN  IF hits = {} THEN DefaultJava
        ELSE JAVA_VERSION_MAP[CHOOSE k \in hits : \A j \in hits : j <= k][2]

getRequiredJavaVersion(mcVersion) == ScanFrom(mcVersion, 1)

\* the version strings tried: every beginning of a key of the table, followed by
\* up to MaxVersionTail further characters
Tails(n) == UNION {[1..m -> VersionChars] : m \in 0..n}

KeyStarts ==
    UNION {{SubSeq(JAVA_VERSION_MAP[k][1], 1, m) :
               m \in 0..Len(JAVA_VERSION_MAP[k][1])} :
           k \in 1..Len(JAVA_VERSION_MAP)}

Versions == {s \o tl : s \in KeyStarts, tl \in Tails(MaxVersionTail)}

\* generateStartupScript is called with the version of a request
ScriptRequest(v) == [op |-> "script-request", version |-> v]

JavaInit ==
    /\ servers = EmptyMap
    /\ disk = EmptyMap
    /\ uuids = {}
    /\ activeServers = EmptyMap
    /\ procs = EmptyMap
    /\ nextPid = 1
    /\ kills = EmptyBag
    /\ restarts = EmptyBag
    /\ rooms = [s \in Clients |-> {}]
    /\ now = 0
    /\ resp \in {ScriptRequest(v) : v \in Versions}
    /\ emits = <<>>
    /\ delivered = [s \in Clients |-> <<>>]

\* const requiredJava = getRequiredJavaVersion(version)
generateStartupScript ==
    /\ resp.op = "script-request"
    /\ resp' = [op |-> "script", version |-> resp.version,
                requiredJava |-> getRequiredJavaVersion(resp.version)]
    /\ UNCHANGED <<servers, disk, uuids, activeServers, procs, nextPid, kills,
                   restarts, rooms, now, emits, delivered>>

JavaNext == generateStartupScript

JavaSpec == JavaInit /\ [][JavaNext]_vars

\* ------------------------------------------------------------ config load
\* what the file config/node.json can hold when the agent boots
NoDocument == [j \in {"ENOENT"} |-> TRUE]

\* text that JSON.parse rejects
Malformed == [j \in {"SyntaxError"} |-> TRUE]

\* the document configure.js writes on a fresh node: nodeId, nodeKey, panelUrl,
\* ... and no servers member
FreshNode == [j \in {"configured"} |-> TRUE]

\* a document with a servers member: empty, or holding instance A
Stores == {EmptyMap, [j \in {"A"} |-> [lastStarted |-> Null]]}

Documents == {NoDocument, Malformed, FreshNode} \cup Stores

\* config.servers of a config object that has no servers member
Undefined == [j \in {"undefined"} |-> TRUE]

\* config.servers after the load: the default { servers: {} } stays when the
\* file is missing or JSON.parse throws, otherwise config is the parsed object
LoadedServersNoCatch(doc) ==
    IF doc = NoDocument THEN EmptyMap
    ELSE IF doc \in Stores THEN doc
    ELSE Undefined

LoadedServers(doc) ==
    IF doc = NoDocument THEN EmptyMap
    ELSE IF doc = Malformed THEN EmptyMap
    ELSE IF doc = FreshNode THEN Undefined
    ELSE doc

\* config.servers[serverId] throws a TypeError
NoMapping == servers = Undefined

TypeErrorMessage == "Cannot read properties of undefined"

Init ==
    /\ servers = EmptyMap
    /\ disk = EmptyMap
    /\ uuids = {}
    /\ activeServers = EmptyMap
    /\ procs = EmptyMap
    /\ nextPid = 1
    /\ kills = EmptyBag
    /\ restarts = EmptyBag
    /\ rooms = [s \in Clients |-> {}]
    /\ now = 0
    /\ resp = NoResponse
    /\ emits = <<>>
    /\ delivered = [s \in Clients |-> <<>>]

\* the agent boots on whatever document the file holds; the ids of the
\* instances it holds are taken
BootInit ==
    /\ disk \in Documents
    /\ servers = LoadedServers(disk)
    /\ uuids = IF disk \in Stores THEN DOMAIN disk ELSE {}
    /\ activeServers = EmptyMap
    /\ procs = EmptyMap
    /\ nextPid = 1
    /\ kills = EmptyBag
    /\ restarts = EmptyBag
    /\ rooms = [s \in Clients |-> {}]
    /\ now = 0
    /\ resp = NoResponse
    /\ emits = <<>>
    /\ delivered = [s \in Clients |-> <<>>]

\* ------------------------------------------------- POST /instances/create
Create(i) ==
    /\ i \notin uuids
    /\ uuids' = uuids \cup {i}
    /\ servers' = MapSet(IF NoMapping THEN EmptyMap ELSE servers, i,
                          [lastStarted |-> Null])
    /\ disk' = servers'
    /\ resp' = Response("create", i, 200, "", 0)
    /\ emits' = <<>>
    /\ UNCHANGED <<activeServers, procs, nextPid, kills, restarts, rooms, now,
                   delivered>>

\* ---------------------------------------------- POST /instances/:id/start
StartNotFoundCreates(i) ==
    /\ servers' = MapSet(servers, i, [lastStarted |-> now])
    /\ disk' = servers'
    /\ resp' = Response("start", i, 404, "Server not found", 0)
    /\ emits' = <<>>
    /\ UNCHANGED <<uuids, activeServers, procs, nextPid, kills, restarts, rooms, now,
                   delivered>>

StartNotFound(i) ==
    /\ resp' = Response("start", i, 404, "Server not found", 0)
    /\ emits' = <<>>
    /\ UNCHANGED <<servers, disk, uuids, activeServers, procs, nextPid, kills,
                   restarts, rooms, now,
                   delivered>>

StartAlreadyRunningLeak(i) ==
    /\ servers' = [servers EXCEPT ![i].lastStarted = now]
    /\ disk' = servers'
    /\ resp' = Response("start", i, 400, "Server already running", 0)
    /\ emits' = <<>>
    /\ UNCHANGED <<uuids, activeServers, procs, nextPid, kills, restarts, rooms, now,
                   delivered>>

StartAlreadyRunning(i) ==
    /\ resp' = Response("start", i, 400, "Server already running", 0)
    /\ emits' = <<>>
    /\ UNCHANGED <<servers, disk, uuids, activeServers, procs, nextPid, kills,
                   restarts, rooms, now,
                   delivered>>

StartLaunchErrorStamped(i) ==
    /\ servers' = [servers EXCEPT ![i].lastStarted = now]
    /\ disk' = servers'
    /\ resp' = Response("start", i, 500, "spawn failed", 0)
    /\ emits' = <<>>
    /\ UNCHANGED <<uuids, activeServers, procs, nextPid, kills, restarts, rooms, now,
                   delivered>>

\* pty.spawn throws: the catch block answers 500 and nothing was changed yet
StartLaunchError(i) ==
    /\ resp' = Response("start", i, 500, "spawn failed", 0)
    /\ emits' = <<>>
    /\ UNCHANGED <<servers, disk, uuids, activeServers, procs, nextPid, kills,
                   restarts, rooms, now,
                   delivered>>

StartSpawnDeferred(i) ==
    /\ nextPid <= MaxProcs
    /\ procs' = MapSet(procs, nextPid, NewProcess(i, "start"))
    /\ nextPid' = nextPid + 1
    /\ servers' = [servers EXCEPT ![i].lastStarted = now]
    /\ disk' = servers'
    /\ resp' = Response("start", i, 200, "", nextPid)
    /\ emits' = <<>>
    /\ UNCHANGED <<uuids, activeServers, kills, restarts, rooms, now, delivered>>

StartSpawn(i) ==
    /\ nextPid <= MaxProcs
    /\ procs' = MapSet(procs, nextPid, NewProcess(i, "start"))
    /\ nextPid' = nextPid + 1
    /\ activeServers' = MapSet(activeServers, i, nextPid)
    /\ servers' = [servers EXCEPT ![i].lastStarted = now]
    /\ disk' = servers'
    /\ resp' = Response("start", i, 200, "", nextPid)
    /\ emits' = <<>>
    /\ UNCHANGED <<uuids, kills, restarts, rooms, now,
                   delivered>>

StartHasNever(i) == FALSE

StartHas(i) == i \in DOMAIN activeServers

\* the lookup throws inside the try block: catch answers 500 with error.message
StartTypeError(i) ==
    /\ resp' = Response("start", i, 500, TypeErrorMessage, 0)
    /\ emits' = <<>>
    /\ UNCHANGED <<servers, disk, uuids, activeServers, procs, nextPid, kills,
                   restarts, rooms, now, delivered>>

Start(i) ==
    IF NoMapping THEN StartTypeError(i)
    ELSE IF i \notin DOMAIN servers THEN StartNotFound(i)
    ELSE IF StartHas(i) THEN StartAlreadyRunning(i)
    ELSE StartSpawn(i) \/ StartLaunchError(i)

\* ----------------------------------------------- POST /instances/:id/stop
StopNotRunningSilent(i) ==
    /\ resp' = Response("stop", i, 200, "", 0)
    /\ emits' = <<>>
    /\ UNCHANGED <<servers, disk, uuids, activeServers, procs, nextPid, kills,
                   restarts, rooms, now,
                   delivered>>

StopNotRunning(i) ==
    /\ resp' = Response("stop", i, 400, "Server not running", 0)
    /\ emits' = <<>>
    /\ UNCHANGED <<servers, disk, uuids, activeServers, procs, nextPid, kills,
                   restarts, rooms, now,
                   delivered>>

\* kill(pid, "SIGTERM", cb) only starts tree-kill; the response is sent at once
StopSignal(i) ==
    /\ Pending < MaxPending
    /\ kills' = BagAdd(kills, [pid |-> activeServers[i], id |-> i,
                               signal |-> "SIGTERM", cb |-> "stop"])
    /\ resp' = Response("stop", i, 200, "", 0)
    /\ emits' = <<>>
    /\ UNCHANGED <<servers, disk, uuids, activeServers, procs, nextPid, restarts,
                   rooms, now,
                   delivered>>

Stop(i) ==
    IF i \notin DOMAIN activeServers THEN StopNotRunning(i) ELSE StopSignal(i)

\* tree-kill has sent the signal to the process tree of pid and calls the
\* callback it was given: that of stop deletes the entry of the id, with or
\* without err. What the signal does to the child shows only in OnExit.
KillDone(k) ==
    /\ BagIn(k, kills)
    /\ activeServers' = IF k.cb = "stop"
                        THEN MapDelete(activeServers, k.id)
                        ELSE activeServers
    /\ procs' = Collect(procs, activeServers', restarts)
    /\ kills' = BagRemove(kills, k)
    /\ resp' = NoResponse
    /\ emits' = <<>>
    /\ UNCHANGED <<servers, disk, uuids, nextPid, restarts, rooms, now,
                   delivered>>

\* console.error("Kill error:", err)
KillErrorLogged(k) == Response("console.error", k.id, 0, "Kill error", 0)

\* tree-kill could not deliver the signal and calls the callback of stop with
\* err: the callback logs it and deletes the entry all the same
KillFailed(k) ==
    /\ BagIn(k, kills)
    /\ k.cb = "stop"
    /\ activeServers' = MapDelete(activeServers, k.id)
    /\ procs' = Collect(procs, activeServers', restarts)
    /\ kills' = BagRemove(kills, k)
    /\ resp' = KillErrorLogged(k)
    /\ emits' = <<>>
    /\ UNCHANGED <<servers, disk, uuids, nextPid, restarts, rooms, now, delivered>>

\* -------------------------------------------- POST /instances/:id/restart
RestartNotFound(i, rs) ==
    /\ resp' = Response("restart", i, 404, "Server not found", 0)
    /\ restarts' = rs
    /\ procs' = Collect(procs, activeServers, rs)
    /\ emits' = <<>>
    /\ UNCHANGED <<servers, disk, uuids, activeServers, nextPid, kills, rooms, now,
                   delivered>>

RestartLaunchError(i, rs) ==
    /\ resp' = Response("restart", i, 500, "spawn failed", 0)
    /\ restarts' = rs
    /\ procs' = Collect(procs, activeServers, rs)
    /\ emits' = <<>>
    /\ UNCHANGED <<servers, disk, uuids, activeServers, nextPid, kills, rooms, now,
                   delivered>>

\* the new process gets an onData handler only; the entry of the id is overwritten
RestartSpawn(i, rs) ==
    /\ nextPid <= MaxProcs
    /\ activeServers' = MapSet(activeServers, i, nextPid)
    /\ procs' = Collect(MapSet(procs, nextPid, NewProcess(i, "restart")),
                        activeServers', rs)
    /\ nextPid' = nextPid + 1
    /\ resp' = Response("restart", i, 200, "", nextPid)
    /\ restarts' = rs
    /\ emits' = <<>>
    /\ UNCHANGED <<servers, disk, uuids, kills, rooms, now,
                   delivered>>

RestartTypeError(i, rs) ==
    /\ resp' = Response("restart", i, 500, TypeErrorMessage, 0)
    /\ restarts' = rs
    /\ procs' = Collect(procs, activeServers, rs)
    /\ emits' = <<>>
    /\ UNCHANGED <<servers, disk, uuids, activeServers, nextPid, kills, rooms, now,
                   delivered>>

RestartStartStepNoLookup(i, rs) == RestartSpawn(i, rs) \/ RestartLaunchError(i, rs)

\* lines 1047-1079: what restart does once nothing is left to stop
RestartStartStep(i, rs) ==
    IF NoMapping THEN RestartTypeError(i, rs)
    ELSE IF i \notin DOMAIN servers THEN RestartNotFound(i, rs)
    ELSE RestartSpawn(i, rs) \/ RestartLaunchError(i, rs)

\* a running instance: tree-kill is started and the handler awaits its callback
RestartKill(i) ==
    /\ Pending < MaxPending
    /\ restarts' = BagAdd(restarts, [id |-> i, old |-> activeServers[i],
                                      phase |-> "kill", since |-> 0])
    /\ resp' = NoResponse
    /\ emits' = <<>>
    /\ UNCHANGED <<servers, disk, uuids, activeServers, procs, nextPid, kills,
                   rooms, now,
                   delivered>>

RestartViaSettle(i) ==
    IF i \in DOMAIN activeServers THEN RestartKill(i)
    ELSE /\ Pending < MaxPending
         /\ restarts' = BagAdd(restarts, [id |-> i, old |-> 0, phase |-> "settle",
                                           since |-> now])
         /\ resp' = NoResponse
         /\ emits' = <<>>
         /\ UNCHANGED <<servers, disk, uuids, activeServers, procs, nextPid, kills,
                        rooms, now, delivered>>

Restart(i) ==
    IF i \in DOMAIN activeServers THEN RestartKill(i) ELSE RestartStartStep(i, restarts)

\* the callback of restart's kill: delete the entry, resolve, and the handler
\* goes on to arm the 2000 ms timer
RestartKilled(r) ==
    /\ BagIn(r, restarts)
    /\ r.phase = "kill"
    /\ activeServers' = MapDelete(activeServers, r.id)
    /\ restarts' = BagAdd(BagRemove(restarts, r),
                          [r EXCEPT !.phase = "settle", !.since = now])
    /\ procs' = Collect(procs, activeServers', restarts')
    /\ resp' = NoResponse
    /\ emits' = <<>>
    /\ UNCHANGED <<servers, disk, uuids, nextPid, kills, rooms, now,
                   delivered>>

SettleSkipped(r) == TRUE

\* setTimeout(r, 2000) fires no earlier than 2000 ms after it was armed
SettleElapsed(r) == now >= r.since + SettleDelay

RestartResume(r) ==
    /\ BagIn(r, restarts)
    /\ r.phase = "settle"
    /\ SettleElapsed(r)
    /\ RestartStartStep(r.id, BagRemove(restarts, r))

\* ------------------------------------------------- DELETE /instances/:id
DeleteNotFound(i) ==
    /\ resp' = Response("delete", i, 404, "Server not found", 0)
    /\ emits' = <<>>
    /\ UNCHANGED <<servers, disk, uuids, activeServers, procs, nextPid, kills,
                   restarts, rooms, now,
                   delivered>>

DeleteRunningKeepsEntry(i) ==
    /\ Pending < MaxPending
    /\ kills' = BagAdd(kills, [pid |-> activeServers[i], id |-> i,
                               signal |-> "SIGKILL", cb |-> "none"])
    /\ servers' = MapDelete(servers, i)
    /\ disk' = servers'
    /\ resp' = Response("delete", i, 200, "", 0)
    /\ emits' = <<>>
    /\ UNCHANGED <<uuids, activeServers, procs, nextPid, restarts, rooms, now,
                   delivered>>

\* kill(pid, "SIGKILL") without a callback, and the entry is deleted at once
DeleteRunning(i) ==
    /\ Pending < MaxPending
    /\ kills' = BagAdd(kills, [pid |-> activeServers[i], id |-> i,
                               signal |-> "SIGKILL", cb |-> "none"])
    /\ activeServers' = MapDelete(activeServers, i)
    /\ procs' = Collect(procs, activeServers', restarts)
    /\ servers' = MapDelete(servers, i)
    /\ disk' = servers'
    /\ resp' = Response("delete", i, 200, "", 0)
    /\ emits' = <<>>
    /\ UNCHANGED <<uuids, nextPid, restarts, rooms, now,
                   delivered>>

DeleteStopped(i) ==
    /\ servers' = MapDelete(servers, i)
    /\ disk' = servers'
    /\ resp' = Response("delete", i, 200, "", 0)
    /\ emits' = <<>>
    /\ UNCHANGED <<uuids, activeServers, procs, nextPid, kills, restarts, rooms, now,
                   delivered>>

DeleteTypeError(i) ==
    /\ resp' = Response("delete", i, 500, TypeErrorMessage, 0)
    /\ emits' = <<>>
    /\ UNCHANGED <<servers, disk, uuids, activeServers, procs, nextPid, kills,
                   restarts, rooms, now, delivered>>

Delete(i) ==
    IF NoMapping THEN DeleteTypeError(i)
    ELSE IF i \notin DOMAIN servers THEN DeleteNotFound(i)
    ELSE IF i \in DOMAIN activeServers THEN DeleteRunning(i)
    ELSE DeleteStopped(i)

\* ----------------------------------------------------- GET /instances/:id
\* status: serverProcess ? "running" : "stopped"
StatusRunning(i) == i \in DOMAIN activeServers

UptimeSinceBoot(i) == now \div 1000

\* (Date.now() - serverProcess.startTime) / 1000: the clock of the model
\* moves in whole seconds, so the quotient is exact
Uptime(i) == (now - procs[activeServers[i]].startTime) \div 1000

\* res.json({...server, status, pid, uptime})
StatusBody(i) ==
    [op |-> "status", id |-> i, status |-> 200, error |-> "",
     running |-> StatusRunning(i),
     pid |-> IF StatusRunning(i) THEN activeServers[i] ELSE Null,
     uptime |-> IF StatusRunning(i) THEN Uptime(i) ELSE 0]

\* the handler has no try block: the TypeError goes to the default error handler
\* of express, which answers 500 with a page and no error member
StatusUncaught(i) == Response("status", i, 500, "", 0)

Status(i) ==
    /\ resp' = IF NoMapping THEN StatusUncaught(i)
               ELSE IF i \notin DOMAIN servers
               THEN Response("status", i, 404, "Server not found", 0)
               ELSE StatusBody(i)
    /\ emits' = <<>>
    /\ UNCHANGED <<servers, disk, uuids, activeServers, procs, nextPid, kills,
                   restarts, rooms, now, delivered>>

\* ------------------------------------------------ ptyProcess.onData(...)
Pushed(p) == Append(procs[p].logs, [time |-> now, data |-> procs[p].produced + 1])

\* start's handler shifts the oldest record out above 1000; restart's only pushes
LogsAfterData(p) ==
    IF procs[p].launcher = "start" /\ Len(Pushed(p)) > LogCapacity
    THEN Tail(Pushed(p))
    ELSE Pushed(p)

OutputEventWrongRoom(p) ==
    [to |-> "server", event |-> "console-output",
     type |-> IF procs[p].launcher = "start" THEN "log" ELSE "none",
     data |-> [chunk |-> procs[p].produced + 1]]

\* io.to(`server-${serverId}`).emit("console-output", ...): restart's handler
\* sends no type field
OutputEvent(p) ==
    [to |-> procs[p].id, event |-> "console-output",
     type |-> IF procs[p].launcher = "start" THEN "log" ELSE "none",
     data |-> [chunk |-> procs[p].produced + 1]]

\* io.to(room).emit reaches the connected sockets that joined the room,
\* socket.emit the socket alone
Receivers(e, rm) ==
    IF e.to \in Clients THEN {e.to} \cap DOMAIN rm
    ELSE {s \in DOMAIN rm : e.to \in rm[s]}

\* an output record as a client sees it: the n-th chunk of process p
Received(p, n) == [id |-> procs[p].id, pid |-> p, n |-> n]

OnData(p) ==
    /\ p \in DOMAIN procs
    /\ procs[p].alive
    /\ procs' = [procs EXCEPT ![p].logs = LogsAfterData(p), ![p].produced = @ + 1]
    /\ emits' = <<OutputEvent(p)>>
    /\ delivered' = [s \in DOMAIN delivered |->
                         IF s \in Receivers(OutputEvent(p), rooms)
                         THEN Append(delivered[s], Received(p, OutputEvent(p).data.chunk))
                         ELSE delivered[s]]
    /\ resp' = NoResponse
    /\ UNCHANGED <<servers, disk, uuids, activeServers, nextPid, kills, restarts,
                   rooms, now>>

\* ------------------------------------------------ ptyProcess.onExit(...)
\* what node-pty reports of the exit: the child ended by itself with one of
\* ExitCodes, or a signal (SIGTERM, 15) ended it. A child exits when it will,
\* signalled or not.
ExitStatuses ==
    {[exitCode |-> c, signal |-> 0] : c \in ExitCodes} \cup
    {[exitCode |-> 0, signal |-> 15]}

StoppedEvent(p, st) ==
    [to |-> procs[p].id, event |-> "server_stopped", type |-> "none", data |-> st]

\* an exit handler that clears the whole running set
OnExitClears(p, st) ==
    /\ p \in DOMAIN procs
    /\ procs[p].alive
    /\ activeServers' = EmptyMap
    /\ emits' = <<StoppedEvent(p, st)>>
    /\ procs' = Collect([procs EXCEPT ![p].alive = FALSE], activeServers', restarts)
    /\ resp' = NoResponse
    /\ UNCHANGED <<servers, disk, uuids, nextPid, kills, restarts, rooms, now,
                   delivered>>

\* the child exits. start registered onExit: delete the entry of the id and emit
\* server_stopped to the room; restart registered no onExit, nothing runs.
OnExit(p, st) ==
    /\ p \in DOMAIN procs
    /\ procs[p].alive
    /\ IF procs[p].launcher = "start"
       THEN /\ activeServers' = MapDelete(activeServers, procs[p].id)
            /\ emits' = <<StoppedEvent(p, st)>>
       ELSE /\ activeServers' = activeServers
            /\ emits' = <<>>
    /\ procs' = Collect([procs EXCEPT ![p].alive = FALSE], activeServers', restarts)
    /\ resp' = NoResponse
    /\ UNCHANGED <<servers, disk, uuids, nextPid, kills, restarts, rooms, now,
                   delivered>>

\* ------------------------------------------------------------- socket.io
RecentLogsOldest(logs) ==
    SubSeq(logs, 1, IF Len(logs) > ReplayCount THEN ReplayCount ELSE Len(logs))

RecentLogsDropNewest(logs) ==
    SubSeq(logs, IF Len(logs) > ReplayCount THEN Len(logs) - ReplayCount + 1 ELSE 1,
           Len(logs) - 1)

\* serverProcess.logs.slice(-50)
RecentLogs(logs) ==
    SubSeq(logs, IF Len(logs) > ReplayCount THEN Len(logs) - ReplayCount + 1 ELSE 1,
           Len(logs))

SystemEvent(s, text) ==
    [to |-> s, event |-> "console-output", type |-> "system", data |-> [text |-> text]]

ReplayNoLogs(s, i) ==
    IF i \in DOMAIN activeServers
    THEN <<SystemEvent(s, "Connected to server console (Real-time)")>>
    ELSE <<SystemEvent(s, "Server is not running. Start it to see live logs.")>>

\* what join-server sends to the socket alone: the recent records, oldest
\* first, then one system message
Replay(s, i) ==
    IF i \in DOMAIN activeServers
    THEN [n \in 1..Len(RecentLogs(procs[activeServers[i]].logs)) |->
             [to |-> s, event |-> "console-output", type |-> "log",
              data |-> [chunk |-> RecentLogs(procs[activeServers[i]].logs)[n].data]]]
         \o <<SystemEvent(s, "Connected to server console (Real-time)")>>
    ELSE <<SystemEvent(s, "Server is not running. Start it to see live logs.")>>

\* the records of the replay as the client sees them
IsLog(e) == e.type = "log"

Replayed(s, i) ==
    [n \in 1..Len(SelectSeq(Replay(s, i), IsLog)) |->
        Received(activeServers[i], SelectSeq(Replay(s, i), IsLog)[n].data.chunk)]

OfOther(i, rec) == rec.id # i

\* a join that leaves a room the socket is already in
JoinToggles(s, i) ==
    /\ s \in DOMAIN rooms
    /\ rooms' = [rooms EXCEPT ![s] = IF i \in @ THEN @ \ {i} ELSE @ \cup {i}]
    /\ resp' = NoResponse
    /\ emits' = Replay(s, i)
    /\ delivered' = [delivered EXCEPT ![s] =
                         SelectSeq(@, LAMBDA rec : OfOther(i, rec)) \o Replayed(s, i)]
    /\ UNCHANGED <<servers, disk, uuids, activeServers, procs, nextPid, kills,
                   restarts, now>>

Join(s, i) ==
    /\ s \in DOMAIN rooms
    /\ rooms' = [rooms EXCEPT ![s] = @ \cup {i}]
    /\ resp' = NoResponse
    /\ emits' = Replay(s, i)
    /\ delivered' = [delivered EXCEPT ![s] =
                         SelectSeq(@, LAMBDA rec : OfOther(i, rec)) \o Replayed(s, i)]
    /\ UNCHANGED <<servers, disk, uuids, activeServers, procs, nextPid, kills,
                   restarts, now>>

DetachAll(s, i) ==
    /\ s \in DOMAIN rooms
    /\ rooms' = [rooms EXCEPT ![s] = {}]
    /\ resp' = NoResponse
    /\ emits' = <<>>
    /\ UNCHANGED <<servers, disk, uuids, activeServers, procs, nextPid, kills,
                   restarts, now, delivered>>

Detach(s, i) ==
    /\ s \in DOMAIN rooms
    /\ rooms' = [rooms EXCEPT ![s] = @ \ {i}]
    /\ resp' = NoResponse
    /\ emits' = <<>>
    /\ UNCHANGED <<servers, disk, uuids, activeServers, procs, nextPid, kills,
                   restarts, now,
                   delivered>>

DisconnectClosesRooms(s) ==
    /\ s \in DOMAIN rooms
    /\ rooms' = [t \in DOMAIN rooms \ {s} |-> rooms[t] \ rooms[s]]
    /\ resp' = NoResponse
    /\ emits' = <<>>
    /\ UNCHANGED <<servers, disk, uuids, activeServers, procs, nextPid, kills,
                   restarts, now, delivered>>

\* the handler only logs; socket.io has taken the socket out of its rooms, and
\* the socket id is never used again
Disconnect(s) ==
    /\ s \in DOMAIN rooms
    /\ rooms' = [t \in DOMAIN rooms \ {s} |-> rooms[t]]
    /\ resp' = NoResponse
    /\ emits' = <<>>
    /\ UNCHANGED <<servers, disk, uuids, activeServers, procs, nextPid, kills,
                   restarts, now, delivered>>

\* ------------------------------------------------------------- commands
WrittenRaw(c) == c

\* pty.write(command + "\n")
Written(c) == c \o <<Newline>>

\* a write that also records the command in the output buffer
PtyWriteLogged(p, c) ==
    [procs EXCEPT ![p].input = @ \o Written(c),
                  ![p].logs = Append(@, [time |-> now, data |-> 0])]

PtyWrite(p, c) == [procs EXCEPT ![p].input = @ \o Written(c)]

EchoAsLog(i, c) ==
    [to |-> i, event |-> "console-output", type |-> "log",
     data |-> [chars |-> <<">", " ">> \o c \o <<Newline>>]]

\* message: `> ${command}\n`, type: "command"
EchoEvent(i, c) ==
    [to |-> i, event |-> "console-output", type |-> "command",
     data |-> [chars |-> <<">", " ">> \o c \o <<Newline>>]]

ErrorEvent(s) ==
    [to |-> s, event |-> "console-output", type |-> "error",
     data |-> [text |-> "Server is not running. Start it first."]]

\* socket.on("console-command")
ConsoleCommand(s, i, c) ==
    /\ s \in DOMAIN rooms
    /\ IF i \in DOMAIN activeServers
       THEN /\ procs' = PtyWrite(activeServers[i], c)
            /\ emits' = <<EchoEvent(i, c)>>
       ELSE /\ procs' = procs
            /\ emits' = <<ErrorEvent(s)>>
    /\ resp' = NoResponse
    /\ UNCHANGED <<servers, disk, uuids, activeServers, nextPid, kills, restarts,
                   rooms, now, delivered>>

\* POST /instances/:id/command
CommandNotRunning(i) ==
    /\ resp' = Response("command", i, 400, "Server not running", 0)
    /\ emits' = <<>>
    /\ UNCHANGED <<servers, disk, uuids, activeServers, procs, nextPid, kills,
                   restarts, rooms, now, delivered>>

CommandWrite(i, c) ==
    /\ procs' = PtyWrite(activeServers[i], c)
    /\ resp' = Response("command", i, 200, "", 0)
    /\ emits' = <<>>
    /\ UNCHANGED <<servers, disk, uuids, activeServers, nextPid, kills, restarts,
                   rooms, now, delivered>>

Command(i, c) ==
    IF i \notin DOMAIN activeServers THEN CommandNotRunning(i) ELSE CommandWrite(i, c)

\* ------------------------------------------------------------------ clock
Tick ==
    /\ now < MaxTicks * TickMs
    /\ now' = now + TickMs
    /\ resp' = NoResponse
    /\ emits' = <<>>
    /\ UNCHANGED <<servers, disk, uuids, activeServers, procs, nextPid, kills,
                   restarts, rooms,
                   delivered>>

\* The lifecycle of one instance: every request, callback and timer of
\* start, stop, restart and delete, the exit of a child, and the room of a socket.
Next ==
    \/ \E i \in SoloIds : Create(i)
    \/ \E i \in SoloIds : Start(i)
    \/ \E i \in SoloIds : Stop(i)
    \/ \E k \in BagToSet(kills) : KillDone(k)
    \/ \E i \in SoloIds : Restart(i)
    \/ \E r \in BagToSet(restarts) : RestartKilled(r)
    \/ \E r \in BagToSet(restarts) : RestartResume(r)
    \/ \E i \in SoloIds : Delete(i)
    \/ \E p \in DOMAIN procs, st \in ExitStatuses : OnExit(p, st)
    \/ \E s \in Sockets, i \in SoloIds : Join(s, i)
    \/ \E s \in Sockets, i \in SoloIds : Detach(s, i)
    \/ Tick

Spec == Init /\ [][Next]_vars

\* One instance and its first process, which produces up to MaxBufChunks chunks:
\* the behaviours in which the output buffer reaches its capacity.
BufNext ==
    \/ Create("A")
    \/ (nextPid = 1 /\ Start("A"))
    \/ (nextPid = 1 /\ Restart("A"))
    \/ \E p \in DOMAIN procs : procs[p].produced < MaxBufChunks /\ OnData(p)

BufSpec == Init /\ [][BufNext]_vars

\* One instance, its first process and one client that joins and leaves its
\* room while the process writes up to MaxConsoleChunks chunks: the behaviours
\* in which a replay meets the live stream.
ConsoleNext ==
    \/ Create("A")
    \/ (nextPid = 1 /\ Start("A"))
    \/ (nextPid = 1 /\ Restart("A"))
    \/ \E p \in DOMAIN procs : procs[p].produced < MaxConsoleChunks /\ OnData(p)
    \/ Join("s1", "A")
    \/ Detach("s1", "A")

ConsoleSpec == Init /\ [][ConsoleNext]_vars

\* the commands a process was sent: one newline ends each
Writes(p) == Cardinality({j \in DOMAIN procs[p].input : procs[p].input[j] = Newline})

MayWrite(i, max) == i \in DOMAIN activeServers => Writes(activeServers[i]) < max

\* The hub: two clients that join and leave the rooms of two ids, disconnect
\* and send commands, while one instance is started, writes output and exits.
HubNext ==
    \/ \E i \in SoloIds : Create(i)
    \/ \E i \in SoloIds : Start(i)
    \/ \E p \in DOMAIN procs : procs[p].produced < MaxHubChunks /\ OnData(p)
    \/ \E p \in DOMAIN procs, st \in ExitStatuses : OnExit(p, st)
    \/ \E s \in Clients, i \in Ids : Join(s, i)
    \/ \E s \in Clients, i \in Ids : Detach(s, i)
    \/ \E s \in Clients : Disconnect(s)
    \/ \E s \in Clients, i \in Ids, c \in Commands :
           MayWrite(i, MaxHubWrites) /\ ConsoleCommand(s, i, c)

HubSpec == Init /\ [][HubNext]_vars

\* Status: one instance is started, writes output and exits while the clock
\* runs and its status is read.
StatusNext ==
    \/ \E i \in SoloIds : Create(i)
    \/ \E i \in SoloIds : Start(i)
    \/ \E p \in DOMAIN procs : procs[p].produced < MaxHubChunks /\ OnData(p)
    \/ \E p \in DOMAIN procs, st \in ExitStatuses : OnExit(p, st)
    \/ \E s \in Sockets, i \in SoloIds : Join(s, i)
    \/ Tick
    \/ \E i \in Ids : Status(i)

StatusSpec == Init /\ [][StatusNext]_vars

\* Stop and its signal: one instance is started and stopped and its status is
\* read, while tree-kill reports the signal sent or failed.
StopNext ==
    \/ \E i \in SoloIds : Create(i)
    \/ \E i \in SoloIds : Start(i)
    \/ \E i \in SoloIds : Stop(i)
    \/ \E k \in BagToSet(kills) : KillDone(k)
    \/ \E k \in BagToSet(kills) : KillFailed(k)
    \/ \E p \in DOMAIN procs, st \in ExitStatuses : OnExit(p, st)
    \/ \E i \in SoloIds : Status(i)
    \/ Tick

StopSpec == Init /\ [][StopNext]_vars

\* Two instances side by side. B is configured, started first, writes its first
\* chunk and has a client in its room; once B is configured, A is started,
\* stopped, restarted from rest and deleted, one signal at a time, is sent its
\* first command, writes its first chunk and exits.
PairNext ==
    \/ \E i \in Ids : Create(i)
    \/ (nextPid = 1 /\ Start("B"))
    \/ ("B" \in DOMAIN servers /\ Start("A"))
    \/ (Pending = 0 /\ Stop("A"))
    \/ \E k \in BagToSet(kills) : KillDone(k)
    \/ ("B" \in DOMAIN servers /\ "A" \notin DOMAIN activeServers /\ Restart("A"))
    \/ (Pending = 0 /\ Delete("A"))
    \/ \E c \in Commands :
          /\ \A p \in DOMAIN procs : procs[p].input = <<>>
          /\ Command("A", c)
    \/ \E p \in DOMAIN procs : procs[p].logs = <<>> /\ OnData(p)
    \/ \E p \in DOMAIN procs, st \in ExitStatuses : procs[p].id = "A" /\ OnExit(p, st)
    \/ Join("s1", "B")

PairSpec == Init /\ [][PairNext]_vars

\* Commands over HTTP: one instance is started, stopped and started again
\* while commands are sent to it.
\* Boot: the agent loads the document and serves calls for the ids; instance A
\* is created, started, stopped, restarted from rest and deleted, and exits.
BootNext ==
    \/ \E i \in SoloIds : Create(i)
    \/ \E i \in Ids : Start(i)
    \/ \E i \in Ids : Stop(i)
    \/ \E k \in BagToSet(kills) : KillDone(k)
    \/ \E i \in Ids : i \notin DOMAIN activeServers /\ Restart(i)
    \/ \E i \in Ids : Delete(i)
    \/ \E i \in Ids : Status(i)
    \/ \E p \in DOMAIN procs, st \in ExitStatuses : OnExit(p, st)

BootSpec == BootInit /\ [][BootNext]_vars

\* Subscribing ahead: clients join the room of A only while A is not running
\* and never leave it; A is started, or restarted from rest, writes output and
\* exits.
AheadNext ==
    \/ Create("A")
    \/ \E s \in Clients : "A" \notin DOMAIN activeServers /\ Join(s, "A")
    \/ Start("A")
    \/ ("A" \notin DOMAIN activeServers /\ Restart("A"))
    \/ \E p \in DOMAIN procs : procs[p].produced < MaxHubChunks /\ OnData(p)
    \/ \E p \in DOMAIN procs, st \in ExitStatuses : OnExit(p, st)

AheadSpec == Init /\ [][AheadNext]_vars

\* Joining again: two clients join and leave the room of A any number of times
\* and send it a command, while its first process writes output and exits.
RejoinNext ==
    \/ Create("A")
    \/ (nextPid = 1 /\ Start("A"))
    \/ \E p \in DOMAIN procs : procs[p].produced < MaxHubChunks /\ OnData(p)
    \/ \E p \in DOMAIN procs, st \in ExitStatuses : OnExit(p, st)
    \/ \E s \in Clients : Join(s, "A")
    \/ \E s \in Clients : Detach(s, "A")
    \/ \E s \in Clients, c \in Commands :
           MayWrite("A", MaxHubWrites) /\ ConsoleCommand(s, "A", c)

RejoinSpec == Init /\ [][RejoinNext]_vars

CommandNext ==
    \/ \E i \in SoloIds : Create(i)
    \/ \E i \in SoloIds : Start(i)
    \/ \E i \in SoloIds : Stop(i)
    \/ \E k \in BagToSet(kills) : KillDone(k)
    \/ \E p \in DOMAIN procs, st \in ExitStatuses : OnExit(p, st)
    \/ \E i \in Ids, c \in Commands : MayWrite(i, MaxWrites) /\ Command(i, c)

CommandSpec == Init /\ [][CommandNext]_vars

\* ------------------------------------------------------------------ claims
Registered(p) ==
    /\ procs[p].id \in DOMAIN activeServers
    /\ activeServers[procs[p].id] = p

AliveOf(i) == {p \in DOMAIN procs : procs[p].id = i /\ procs[p].alive}

Min(a, b) == IF a <= b THEN a ELSE b

Exited(p) == procs[p].alive /\ (p \notin DOMAIN procs' \/ ~procs'[p].alive)

StoppedEvents(es, i) ==
    {n \in DOMAIN es : es[n].event = "server_stopped" /\ es[n].to = i}

\* C1: a Start call for an id whose process is still registered fails with
\* "Server already running" and registers nothing, and a Start call that
\* succeeds found no entry for the id and registers exactly the process it
\* spawned: of several Start calls for one id exactly one succeeds.
C1_OneStartSucceeds ==
    [][\A i \in Ids : Start(i) =>
        /\ (i \in DOMAIN activeServers =>
               /\ resp'.status = 400
               /\ resp'.error = "Server already running"
               /\ activeServers' = activeServers
               /\ nextPid' = nextPid)
        /\ (resp'.status = 200 =>
               /\ i \notin DOMAIN activeServers
               /\ nextPid' = nextPid + 1
               /\ activeServers' = MapSet(activeServers, i, nextPid)
               /\ resp'.pid = nextPid)]_vars

\* a second Start was rejected while the process of the first is registered
C1_Witness ==
    /\ resp.op = "start"
    /\ resp.status = 400
    /\ resp.id \in DOMAIN activeServers
    /\ procs[activeServers[resp.id]].launcher = "start"

\* C2: no interleaving of Start, Stop, Restart and the asynchronous callbacks
\* has two live child processes of one instance id at the same time.
C2_OneLiveProcessPerId ==
    \A i \in Ids : Cardinality(AliveOf(i)) <= 1

\* C3: when a process held in the running set exits, its entry is removed
\* (the instance is Stopped and Status reports running:false).
C3_ExitRemovesEntry ==
    [][\A p \in DOMAIN procs :
        (Exited(p) /\ Registered(p)) => procs[p].id \notin DOMAIN activeServers']_vars

\* C4: the exit of a process publishes exactly one terminal event
\* (server_stopped) to the room of its instance, and no other step publishes one.
C4_OneTerminalEvent ==
    [][\A i \in Ids :
        Cardinality(StoppedEvents(emits', i)) =
            Cardinality({p \in DOMAIN procs : procs[p].id = i /\ Exited(p)})]_vars

\* C5: the output buffer of a process never holds more than 1000 records,
\* whichever handler launched the process.
C5_BufferBounded ==
    \A p \in DOMAIN procs : Len(procs[p].logs) <= LogCapacity

\* C6: after k chunks the buffer of a process holds exactly the most recent
\* min(k, 1000) chunks, in production order.
C6_BufferIsFifo ==
    \A p \in DOMAIN procs :
        /\ Len(procs[p].logs) = Min(procs[p].produced, LogCapacity)
        /\ \A j \in 1..Len(procs[p].logs) :
               procs[p].logs[j].data = procs[p].produced - Len(procs[p].logs) + j

\* C7: Start on an instance that has a RunningProcess answers "Server already
\* running" and changes nothing: the entry, the processes and their buffers,
\* the configuration with its last-started timestamp, and all else stay.
C7_StartAlreadyRunningNoChange ==
    [][\A i \in Ids : (Start(i) /\ i \in DOMAIN activeServers) =>
        /\ resp' = Response("start", i, 400, "Server already running", 0)
        /\ UNCHANGED <<servers, disk, uuids, activeServers, procs, nextPid,
                       kills, restarts, rooms, now>>]_vars

\* Start was rejected for a process that was started at an earlier instant
C7_Witness ==
    /\ resp = Response("start", resp.id, 400, "Server already running", 0)
    /\ resp.id \in DOMAIN activeServers
    /\ servers[resp.id].lastStarted = procs[activeServers[resp.id]].startTime
    /\ servers[resp.id].lastStarted < now

\* C8: Stop on an instance with no RunningProcess answers "Server not
\* running", starts no kill, and leaves the running set, the configuration
\* and the subscriptions as they were.
C8_StopNotRunningNoChange ==
    [][\A i \in Ids : (Stop(i) /\ i \notin DOMAIN activeServers) =>
        /\ resp' = Response("stop", i, 400, "Server not running", 0)
        /\ emits' = <<>>
        /\ UNCHANGED <<servers, disk, activeServers, procs, kills, restarts,
                       rooms>>]_vars

\* Stop was rejected for a configured, subscribed instance that is not running
C8_Witness ==
    /\ resp = Response("stop", resp.id, 400, "Server not running", 0)
    /\ resp.id \in DOMAIN servers
    /\ resp.id \notin DOMAIN activeServers
    /\ \E s \in Sockets : resp.id \in rooms[s]

\* C9: the completion of the termination signal of a Stop does not remove the
\* entry of a process that has not exited; the entry stays until the exit.
C9_StopKeepsEntryUntilExit ==
    [][\A k \in BagToSet(kills) :
        (/\ k.cb = "stop"
         /\ kills' = BagRemove(kills, k)
         /\ k.pid \in DOMAIN procs
         /\ Registered(k.pid)
         /\ ~Exited(k.pid))
            => (k.id \in DOMAIN activeServers' /\ activeServers'[k.id] = k.pid)]_vars

\* C10: when a Restart of a running instance registers its new process, the
\* stop signal was issued to the old one, the settle interval has elapsed
\* since, and the new start timestamp is strictly later than the old one.
C10_RestartOrder ==
    [][(BagCardinality(restarts') < BagCardinality(restarts) /\ nextPid' > nextPid) =>
        \E r \in BagToSet(restarts) :
            /\ restarts' = BagRemove(restarts, r)
            /\ r.phase = "settle"
            /\ now >= r.since + SettleDelay
            /\ r.since >= procs[r.old].startTime
            /\ procs'[nextPid].startTime > procs[r.old].startTime
            /\ procs'[nextPid].id = r.id
            /\ procs'[nextPid].launcher = "restart"
            /\ activeServers'[r.id] = nextPid]_vars

\* restart has just registered its new process, a settle interval after the
\* start of the process it stopped, which has not exited yet
C10_Witness ==
    \E p, q \in DOMAIN procs :
        /\ resp = Response("restart", procs[p].id, 200, "", p)
        /\ procs[p].launcher = "restart"
        /\ Registered(p)
        /\ q < p
        /\ procs[q].id = procs[p].id
        /\ procs[q].alive
        /\ procs[p].startTime >= procs[q].startTime + SettleDelay

\* C11: while a Restart of an instance waits in its settle delay, no other call
\* launches a process of that instance ahead of the Restart's own start step,
\* and that start step never replaces an entry registered in the meantime.
C11_RestartNotOvertaken ==
    [][\A r \in BagToSet(restarts) :
        (r.phase = "settle" /\ nextPid' > nextPid /\ procs'[nextPid].id = r.id) =>
            /\ restarts' = BagRemove(restarts, r)
            /\ r.id \notin DOMAIN activeServers]_vars

\* the output records of instance i that socket s received since it last joined
DeliveredOf(s, i) == SelectSeq(delivered[s], LAMBDA rec : rec.id = i)

\* the output records of process p that socket s received since it last joined
DeliveredFrom(s, p) == SelectSeq(delivered[s], LAMBDA rec : rec.pid = p)

FirstRecords(p, n) == [j \in 1..n |-> Received(p, j)]

LiveDelivery ==
    \A p \in DOMAIN procs, s \in DOMAIN rooms :
        (OnData(p) /\ procs[p].id \in rooms[s]) =>
            delivered'[s] = Append(delivered[s], Received(p, procs[p].produced + 1))

\* C12 (as stated): a subscriber that joins a running instance whose process has
\* produced N <= 1000 records receives exactly those N records in order, then
\* every record produced afterwards.
C12_ReplayAllBuffered ==
    [][/\ \A s \in DOMAIN rooms, i \in Ids :
            (/\ Join(s, i)
             /\ i \in DOMAIN activeServers
             /\ procs[activeServers[i]].produced <= LogCapacity)
                => DeliveredOf(s, i)' =
                       FirstRecords(activeServers[i], procs[activeServers[i]].produced)
       /\ LiveDelivery]_vars

\* C12 (amended): a subscriber that joins a running instance whose process has
\* produced N <= 50 records receives exactly those N records in order, then
\* every record produced afterwards.
C12_ReplayRecent ==
    [][/\ \A s \in DOMAIN rooms, i \in Ids :
            (/\ Join(s, i)
             /\ i \in DOMAIN activeServers
             /\ procs[activeServers[i]].produced <= ReplayCount)
                => DeliveredOf(s, i)' =
                       FirstRecords(activeServers[i], procs[activeServers[i]].produced)
       /\ LiveDelivery]_vars

\* a client has just joined after 50 records and the replay brought it them all
C12_Witness ==
    /\ "A" \in DOMAIN activeServers
    /\ "A" \in rooms["s1"]
    /\ procs[activeServers["A"]].produced = ReplayCount
    /\ Len(emits) = ReplayCount + 1
    /\ emits[ReplayCount + 1].type = "system"
    /\ delivered["s1"] = FirstRecords(activeServers["A"], ReplayCount)

\* C13: join-server on a running instance sends the socket the most recent
\* min(50, buffer length) records, oldest first, then exactly one system
\* message that the console is live; on an instance that is not running it
\* sends no record and exactly one system message that it is not running.
C13_ReplayThenStatus ==
    [][\A s \in DOMAIN rooms, i \in Ids : Join(s, i) =>
        IF i \in DOMAIN activeServers
        THEN /\ Len(emits') = Min(ReplayCount, Len(procs[activeServers[i]].logs)) + 1
             /\ \A n \in 1..(Len(emits') - 1) :
                    /\ emits'[n].to = s
                    /\ emits'[n].type = "log"
                    /\ emits'[n].data.chunk =
                           procs[activeServers[i]].logs[
                               Len(procs[activeServers[i]].logs) - Len(emits') + 1 + n].data
             /\ emits'[Len(emits')] =
                    SystemEvent(s, "Connected to server console (Real-time)")
        ELSE emits' = <<SystemEvent(s, "Server is not running. Start it to see live logs.")>>]_vars

\* a join has replayed 50 records of a buffer that holds more
C13_Witness ==
    /\ Len(emits) = ReplayCount + 1
    /\ emits[1].to = "s1"
    /\ emits[1].data.chunk = 2
    /\ emits[ReplayCount + 1].type = "system"
    /\ Len(procs[activeServers["A"]].logs) > ReplayCount

Subscribers(i) == {s \in DOMAIN rooms : i \in rooms[s]}

\* C15: an output record, a terminal event and a command echo of an instance
\* reach exactly the sockets subscribed to that instance when it is published.
C15_PublishedToSubscribers ==
    [][/\ \A p \in DOMAIN procs : OnData(p) =>
              /\ Len(emits') = 1
              /\ Receivers(emits'[1], rooms') = Subscribers(procs[p].id)
              /\ \A s \in DOMAIN delivered :
                     delivered'[s] = IF s \in Subscribers(procs[p].id)
                                     THEN Append(delivered[s],
                                                 Received(p, procs[p].produced + 1))
                                     ELSE delivered[s]
       /\ \A p \in DOMAIN procs, st \in ExitStatuses : OnExit(p, st) =>
              \A n \in DOMAIN emits' :
                  Receivers(emits'[n], rooms') = Subscribers(procs[p].id)
       /\ \A s \in DOMAIN rooms, i \in Ids, c \in Commands :
              (ConsoleCommand(s, i, c) /\ i \in DOMAIN activeServers) =>
                  /\ Len(emits') = 1
                  /\ Receivers(emits'[1], rooms') = Subscribers(i)]_vars

\* an output record of A has reached the client in A's room and not the
\* client that is in B's room only
C15_Witness ==
    /\ DOMAIN rooms = Clients
    /\ rooms["s1"] = {"A"}
    /\ rooms["s2"] = {"B"}
    /\ emits # <<>>
    /\ emits[1].to = "A"
    /\ emits[1].type = "log"
    /\ Len(delivered["s1"]) = 1
    /\ delivered["s2"] = <<>>

\* C16: the disconnect of one subscriber leaves the running set, the processes
\* and their buffers, and the other subscribers' subscriptions as they were;
\* every publishing callback completes and reaches every remaining subscriber.
C16_DisconnectIsolated ==
    [][/\ \A s \in DOMAIN rooms : Disconnect(s) =>
              /\ UNCHANGED <<servers, disk, activeServers, procs, kills, restarts>>
              /\ emits' = <<>>
              /\ \A u \in DOMAIN rooms \ {s} :
                     /\ u \in DOMAIN rooms'
                     /\ rooms'[u] = rooms[u]
                     /\ delivered'[u] = delivered[u]
       /\ \A p \in DOMAIN procs : OnData(p) =>
              /\ procs'[p].logs = LogsAfterData(p)
              /\ activeServers' = activeServers
              /\ \A u \in Subscribers(procs[p].id) :
                     delivered'[u] = Append(delivered[u],
                                            Received(p, procs[p].produced + 1))
       /\ \A p \in DOMAIN procs, st \in ExitStatuses :
              (OnExit(p, st) /\ procs[p].launcher = "start") =>
                  /\ procs[p].id \notin DOMAIN activeServers'
                  /\ Receivers(emits'[1], rooms') = Subscribers(procs[p].id)]_vars

\* a client that had received output has disconnected, and a later record
\* has just reached the client that stays in the room
C16_Witness ==
    \E s \in Clients \ DOMAIN rooms, u \in DOMAIN rooms :
        /\ delivered[s] # <<>>
        /\ delivered[s][1].id = "A"
        /\ "A" \in rooms[u]
        /\ Len(delivered[u]) > Len(delivered[s])
        /\ emits # <<>>
        /\ emits[1].to = "A"
        /\ emits[1].type = "log"

\* C17: detach answers nothing and removes only the pair (socket, id): a
\* detach without a subscription changes nothing; other ids of the socket and
\* other sockets keep their subscriptions; a socket that is not subscribed to
\* an instance, or has disconnected, receives no output of it.
C17_DetachIdempotent ==
    [][/\ \A s \in DOMAIN rooms, i \in Ids : Detach(s, i) =>
              /\ emits' = <<>>
              /\ resp' = NoResponse
              /\ DOMAIN rooms' = DOMAIN rooms
              /\ rooms'[s] = rooms[s] \ {i}
              /\ \A u \in DOMAIN rooms \ {s} : rooms'[u] = rooms[u]
              /\ i \notin rooms[s] => rooms' = rooms
              /\ UNCHANGED <<servers, disk, activeServers, procs, kills, restarts,
                             delivered>>
       /\ \A s \in DOMAIN rooms : Disconnect(s) =>
              /\ s \notin DOMAIN rooms'
              /\ \A u \in DOMAIN rooms \ {s} : u \in DOMAIN rooms' /\ rooms'[u] = rooms[u]
       /\ \A p \in DOMAIN procs, s \in Clients :
              (OnData(p) /\ s \notin Subscribers(procs[p].id)) =>
                  /\ delivered'[s] = delivered[s]
                  /\ s \notin Receivers(emits'[1], rooms')]_vars

\* a client that received output of A has detached from A, keeps its
\* subscription to B, and has not received the record A has just published
C17_Witness ==
    /\ "s1" \in DOMAIN rooms
    /\ rooms["s1"] = {"B"}
    /\ Len(delivered["s1"]) = 1
    /\ delivered["s1"][1].id = "A"
    /\ emits # <<>>
    /\ emits[1].to = "A"
    /\ emits[1].type = "log"
    /\ \E p \in DOMAIN procs : procs[p].produced = 1 /\ delivered["s1"][1].pid # p

\* C18: console-command for a running instance writes the text and a newline
\* to its registered process and publishes one echo, of a type no output
\* record has, to the subscribers of the instance; for an instance that is not
\* running it writes nothing and sends one error event to the sender alone.
C18_CommandEcho ==
    [][\A s \in DOMAIN rooms, i \in Ids, c \in Commands : ConsoleCommand(s, i, c) =>
        IF i \in DOMAIN activeServers
        THEN /\ procs' = [procs EXCEPT ![activeServers[i]].input = @ \o c \o <<"\n">>]
             /\ Len(emits') = 1
             /\ emits'[1].to = i
             /\ emits'[1].type = "command"
             /\ emits'[1].data = [chars |-> <<">", " ">> \o c \o <<"\n">>]
             /\ \A p \in DOMAIN procs : OutputEvent(p).type # emits'[1].type
             /\ Receivers(emits'[1], rooms') = Subscribers(i)
        ELSE /\ procs' = procs
             /\ Len(emits') = 1
             /\ emits'[1].type = "error"
             /\ Receivers(emits'[1], rooms') = {s}]_vars

\* both clients are in the room of A and the echo of a command written to
\* A's process has just been published
C18_Witness ==
    /\ Subscribers("A") = Clients
    /\ "A" \in DOMAIN activeServers
    /\ procs[activeServers["A"]].input = <<"o", "p", "\n">>
    /\ emits = <<EchoEvent("A", <<"o", "p">>)>>

\* C19: POST command without an entry answers 400 "Server not running" and
\* writes nothing; with an entry it appends the text and one newline to the
\* input of the registered process, after everything written before, and
\* leaves the running set and every buffer as they were.
C19_SendCommand ==
    [][\A i \in Ids, c \in Commands : Command(i, c) =>
        /\ activeServers' = activeServers
        /\ IF i \notin DOMAIN activeServers
           THEN /\ resp' = Response("command", i, 400, "Server not running", 0)
                /\ procs' = procs
           ELSE /\ resp'.status = 200
                /\ procs' = [procs EXCEPT
                                ![activeServers[i]].input = @ \o c \o <<"\n">>]]_vars

\* two commands have reached the registered process in the order they were
\* sent, and none the earlier process of the instance that is still alive
C19_Witness ==
    /\ resp = Response("command", "A", 200, "", 0)
    /\ "A" \in DOMAIN activeServers
    /\ procs[activeServers["A"]].input = <<"s", "a", "y", "\n", "o", "p", "\n">>
    /\ \E q \in DOMAIN procs :
           /\ q # activeServers["A"]
           /\ procs[q].alive
           /\ procs[q].input = <<>>

\* C20: every id in the running set is configured, after every step; Delete
\* of a running instance sends SIGKILL to its registered process and removes
\* its entry together with its configuration.
C20_RunningAreConfigured ==
    [][/\ DOMAIN activeServers' \subseteq DOMAIN servers'
       /\ \A i \in Ids :
              (Delete(i) /\ i \in DOMAIN servers /\ i \in DOMAIN activeServers) =>
                  /\ i \notin DOMAIN activeServers'
                  /\ i \notin DOMAIN servers'
                  /\ kills' = BagAdd(kills, [pid |-> activeServers[i], id |-> i,
                                             signal |-> "SIGKILL", cb |-> "none"])]_vars

\* a running instance has just been deleted: the kill of its process is under
\* way and neither its entry nor its configuration is left
C20_Witness ==
    /\ resp = Response("delete", "A", 200, "", 0)
    /\ "A" \notin DOMAIN servers
    /\ "A" \notin DOMAIN activeServers
    /\ \E k \in BagToSet(kills) :
           /\ k.signal = "SIGKILL"
           /\ k.pid \in DOMAIN procs
           /\ procs[k.pid].alive

\* C21: Start or Restart of an id that is not configured answers 404 "Server
\* not found", spawns nothing and leaves the running set and the configuration,
\* in memory and on disk, as they were.
C21_NotFoundNoChange ==
    [][\A i \in Ids : ((Start(i) \/ Restart(i)) /\ i \notin DOMAIN servers) =>
        /\ resp'.status = 404
        /\ resp'.error = "Server not found"
        /\ resp'.id = i
        /\ UNCHANGED <<servers, disk, activeServers, procs, nextPid, kills,
                       restarts>>]_vars

\* Restart of an id that was never created has just been refused
C21_Witness ==
    /\ resp = Response("restart", "A", 404, "Server not found", 0)
    /\ uuids = {}
    /\ procs = EmptyMap

\* C22: when pty.spawn fails in Start the call answers with an error, no
\* entry is registered, no process exists and the last-started timestamp and
\* the persisted configuration are as before.
C22_LaunchErrorNoChange ==
    [][\A i \in Ids : (Start(i) /\ resp'.status = 500) =>
        /\ i \notin DOMAIN activeServers'
        /\ resp'.error # ""
        /\ UNCHANGED <<servers, disk, activeServers, procs, nextPid, kills,
                       restarts>>]_vars

\* a Start of a configured, never started instance has just failed to launch
C22_Witness ==
    /\ resp.op = "start"
    /\ resp.status = 500
    /\ resp.id \in DOMAIN servers
    /\ servers[resp.id].lastStarted = Null
    /\ resp.id \notin DOMAIN activeServers

\* C25: every launch of a process, by Start or by the start step of Restart,
\* sets the last-started timestamp of the instance to the launch time and
\* persists the configuration.
C25_LaunchStampsLastStarted ==
    [][nextPid' > nextPid =>
        /\ servers'[procs'[nextPid].id].lastStarted = procs'[nextPid].startTime
        /\ disk' = servers']_vars

\* C26: Restart of a configured instance without an entry starts no kill,
\* arms no timer and, unless the launch fails, registers a new process in the
\* same step.
C26_RestartStoppedStartsAtOnce ==
    [][\A i \in Ids :
        (Restart(i) /\ i \in DOMAIN servers /\ i \notin DOMAIN activeServers) =>
            /\ kills' = kills
            /\ restarts' = restarts
            /\ now' = now
            /\ resp'.op = "restart"
            /\ resp'.status \in {200, 500}
            /\ resp'.status = 200 =>
                   /\ nextPid' = nextPid + 1
                   /\ resp'.pid = nextPid
                   /\ activeServers' = MapSet(activeServers, i, nextPid)
                   /\ procs'[nextPid].alive
                   /\ procs'[nextPid].startTime = now]_vars

\* Restart has just launched the first process of an instance that was stopped
C26_Witness ==
    /\ resp = Response("restart", "A", 200, "", 1)
    /\ nextPid = 2
    /\ activeServers = MapSet(EmptyMap, "A", 1)
    /\ procs[1].alive
    /\ procs[1].startTime = now
    /\ kills = EmptyBag
    /\ restarts = EmptyBag

C23_StartedIsRunning ==
    [][\A i \in Ids : (Start(i) /\ resp'.status = 200) =>
        /\ ~StatusBody(i).running
        /\ StatusBody(i)'.running
        /\ StatusBody(i)'.pid = resp'.pid
        /\ procs'[resp'.pid].produced = 0
        /\ procs'[resp'.pid].alive]_vars

\* Status has just reported a process running that has written no output
C23_Witness ==
    /\ resp.op = "status"
    /\ resp.status = 200
    /\ resp.running
    /\ resp.pid = activeServers[resp.id]
    /\ procs[resp.pid].produced = 0
    /\ servers[resp.id].lastStarted = procs[resp.pid].startTime

\* C24: Status answers 404 for an id that is not configured; otherwise it
\* reports running exactly when the id has an entry, with the pid of the entry
\* and the seconds since its start time (pid null and uptime 0 without one);
\* it changes nothing.
C24_StatusReadsOnly ==
    [][\A i \in Ids : Status(i) =>
        /\ IF i \notin DOMAIN servers
           THEN resp'.status = 404 /\ resp'.error = "Server not found"
           ELSE /\ resp'.status = 200
                /\ resp'.running = (i \in DOMAIN activeServers)
                /\ resp'.running =>
                       /\ resp'.pid = activeServers[i]
                       /\ resp'.uptime * 1000 = now - procs[activeServers[i]].startTime
                /\ ~resp'.running => (resp'.pid = Null /\ resp'.uptime = 0)
        /\ emits' = <<>>
        /\ UNCHANGED <<servers, disk, uuids, activeServers, procs, nextPid, kills,
                       restarts, rooms, now, delivered>>]_vars

\* Status has just reported a process that has run for a while, with output
\* buffered and a client subscribed
C24_Witness ==
    /\ resp.op = "status"
    /\ resp.status = 200
    /\ resp.running
    /\ resp.uptime > 0
    /\ procs[resp.pid].logs # <<>>
    /\ \E s \in DOMAIN rooms : resp.id \in rooms[s]

\* C28: when the signal of a Stop cannot be delivered, the caller is sent a
\* failure and the entry of the instance stays in the running set.
C28_StopFailureReported ==
    [][\A k \in BagToSet(kills) : KillFailed(k) =>
        /\ resp'.status >= 400
        /\ k.id \in DOMAIN activeServers => activeServers' = activeServers]_vars

\* a step taken by or for instance i: a call on the id, the completion of its
\* signal, or output or the exit of one of its processes
StepOf(i) ==
    \/ Start(i)
    \/ Stop(i)
    \/ Restart(i)
    \/ Delete(i)
    \/ \E c \in Commands : Command(i, c)
    \/ \E k \in BagToSet(kills) : k.id = i /\ KillDone(k)
    \/ \E r \in BagToSet(restarts) : r.id = i /\ (RestartKilled(r) \/ RestartResume(r))
    \/ \E p \in DOMAIN procs : procs[p].id = i /\ OnData(p)
    \/ \E p \in DOMAIN procs, st \in ExitStatuses : procs[p].id = i /\ OnExit(p, st)

\* C29: a step of instance i leaves, for every other instance j, the entry in
\* the running set, every process of j with its buffer, the configuration in
\* memory and on disk and the subscribers unchanged, and every event it emits
\* is received only by subscribers of i.
C29_OtherInstanceUntouched ==
    [][\A i \in Ids : StepOf(i) => \A j \in Ids \ {i} :
        /\ (j \in DOMAIN activeServers') = (j \in DOMAIN activeServers)
        /\ j \in DOMAIN activeServers => activeServers'[j] = activeServers[j]
        /\ \A p \in DOMAIN procs : procs[p].id = j =>
               p \in DOMAIN procs' /\ procs'[p] = procs[p]
        /\ (j \in DOMAIN servers') = (j \in DOMAIN servers)
        /\ j \in DOMAIN servers => servers'[j] = servers[j]
        /\ (j \in DOMAIN disk') = (j \in DOMAIN disk)
        /\ j \in DOMAIN disk => disk'[j] = disk[j]
        /\ {s \in DOMAIN rooms' : j \in rooms'[s]} = Subscribers(j)
        /\ \A n \in 1..Len(emits') :
               Receivers(emits'[n], rooms') \subseteq Subscribers(i)
        /\ \A s \in Subscribers(j) \ Subscribers(i) : delivered'[s] = delivered[s]]_vars

\* a process of A that had written output has just exited and its entry is
\* gone, next to a running B with output buffered and delivered to the client
\* in its room
C29_Witness ==
    /\ Len(emits) = 1
    /\ emits[1].to = "A"
    /\ emits[1].event = "server_stopped"
    /\ "A" \notin DOMAIN activeServers
    /\ "B" \in DOMAIN activeServers
    /\ procs[activeServers["B"]].logs # <<>>
    /\ Subscribers("B") = {"s1"}
    /\ DeliveredOf("s1", "B") # <<>>

\* a step of the hub: a client joins or leaves a room, disconnects or sends a
\* command over its socket
HubStep ==
    \/ \E s \in Clients, i \in Ids : Join(s, i) \/ Detach(s, i)
    \/ \E s \in Clients : Disconnect(s)
    \/ \E s \in Clients, i \in Ids, c \in Commands : ConsoleCommand(s, i, c)

\* the running set and the output buffer of every process are as they were
RegistryAndBuffersKept ==
    /\ activeServers' = activeServers
    /\ DOMAIN procs' = DOMAIN procs
    /\ \A p \in DOMAIN procs :
           /\ procs'[p].logs = procs[p].logs
           /\ procs'[p].alive = procs[p].alive
           /\ procs'[p].startTime = procs[p].startTime

\* C30: join-server, detach, disconnect and console-command, with its echo,
\* leave the running set and the output buffer of every process as they were:
\* a step that changes one of them is not a step of the hub.
C30_HubLeavesRegistryAndBuffers ==
    [][~RegistryAndBuffersKept => ~HubStep]_vars

\* a command sent over a socket has just been written to a running process
\* with output buffered, and echoed to its room
C30_Witness ==
    /\ Len(emits) = 1
    /\ emits[1].type = "command"
    /\ emits[1].to \in DOMAIN activeServers
    /\ procs[activeServers[emits[1].to]].logs # <<>>
    /\ procs[activeServers[emits[1].to]].input # <<>>
    /\ Subscribers(emits[1].to) # {}

\* a call that looks the id up in the configuration
LooksUp(i) == Start(i) \/ Status(i) \/ Delete(i)

\* C31: an agent booted on a document that does not parse has an empty store,
\* and until an instance is created every Start, Status and Delete of any id
\* answers 404 "Server not found".
C31_MalformedIsEmptyStore ==
    [][disk = Malformed =>
        /\ servers = EmptyMap
        /\ \A i \in Ids : LooksUp(i) =>
               /\ resp'.status = 404
               /\ resp'.error = "Server not found"
               /\ UNCHANGED <<servers, disk, activeServers, procs>>]_vars

\* booted on a document that does not parse, the agent has just refused to
\* delete A as not found
C31_Witness ==
    /\ disk = Malformed
    /\ servers = EmptyMap
    /\ resp = Response("delete", "A", 404, "Server not found", 0)

\* C38: an agent booted on the document of configure.js, which has no servers
\* member, answers every Start, Restart, Status and Delete of any id with 404
\* "Server not found".
C38_NoMappingIsEmptyStore ==
    [][disk = FreshNode =>
        \A i \in Ids : (LooksUp(i) \/ Restart(i)) =>
            /\ resp'.status = 404
            /\ resp'.error = "Server not found"]_vars

\* the entries of the table whose key the string starts with
Matching(v) == {k \in 1..Len(JAVA_VERSION_MAP) : StartsWith(v, JAVA_VERSION_MAP[k][1])}

\* C32: the runtime version computed for a version string is the value of the
\* longest key of the table that the string starts with, and 17 when it starts
\* with none.
C32_LongestPrefixWins ==
    resp.op = "script" =>
        IF Matching(resp.version) = {}
        THEN resp.requiredJava = 17
        ELSE \E k \in Matching(resp.version) :
                /\ \A j \in Matching(resp.version) :
                       Len(JAVA_VERSION_MAP[j][1]) <= Len(JAVA_VERSION_MAP[k][1])
                /\ resp.requiredJava = JAVA_VERSION_MAP[k][2]

\* a version that starts with two keys of different values got the value of
\* the longer one
C32_Witness ==
    /\ resp.op = "script"
    /\ Cardinality(Matching(resp.version)) = 2
    /\ Cardinality({JAVA_VERSION_MAP[k][2] : k \in Matching(resp.version)}) = 2
    /\ Len(resp.version) = 7
    /\ resp.requiredJava = 21

\* the entry of instance i holds a process other than p
HoldsLater(i, p) == i \in DOMAIN activeServers /\ activeServers[i] # p

\* C33: the exit of a process, or the callback of the signal sent to a process
\* by Stop or Restart, leaves the running set as it is when the entry of the
\* instance holds a process that was registered later.
C33_EntryRemovedByOwnEvent ==
    [][/\ \A p \in DOMAIN procs, st \in ExitStatuses :
              (OnExit(p, st) /\ HoldsLater(procs[p].id, p)) =>
                  activeServers' = activeServers
       /\ \A k \in BagToSet(kills) :
              (KillDone(k) /\ HoldsLater(k.id, k.pid)) =>
                  activeServers' = activeServers
       /\ \A r \in BagToSet(restarts) :
              (RestartKilled(r) /\ HoldsLater(r.id, r.old)) =>
                  activeServers' = activeServers]_vars

\* C34: every process that was launched and has not exited is the one held in
\* the running set for its instance: an instance that Status reports as not
\* running has no live process.
C34_AliveAreTracked ==
    \A i \in Ids : i \in DOMAIN servers =>
        /\ ~StatusBody(i).running => AliveOf(i) = {}
        /\ \A p \in AliveOf(i) : Registered(p)

\* the processes of instance i that are alive after the step
AliveAfter(i) == {p \in DOMAIN procs' : procs'[p].id = i /\ procs'[p].alive}

\* C35: a terminal event of an instance is published only when the process its
\* entry holds is no longer alive, and only when no process of the instance is
\* left alive: a live process writes output when it will, so its output would
\* follow the terminal event with no Start or Restart in between.
C35_TerminalEventIsLast ==
    [][\A i \in Ids : StoppedEvents(emits', i) # {} =>
        /\ i \in DOMAIN activeServers => activeServers[i] \notin AliveAfter(i)
        /\ AliveAfter(i) = {}]_vars

\* C36: a client that joined the room of an instance while it was not running,
\* and stayed, receives every output record of a process started afterwards,
\* appended in the order of production, and the terminal event of its exit.
C36_SubscribedAheadReceivesAll ==
    [][\A s \in DOMAIN rooms, p \in DOMAIN procs :
        procs[p].id \in rooms[s] =>
            /\ OnData(p) =>
                   delivered'[s] = Append(delivered[s], Received(p, procs[p].produced + 1))
            /\ \A st \in ExitStatuses : OnExit(p, st) =>
                   \E n \in DOMAIN emits' :
                       /\ emits'[n] = StoppedEvent(p, st)
                       /\ s \in Receivers(emits'[n], rooms')]_vars

\* C37: join-server for a room the socket is already in leaves the rooms as
\* they are; every output record, terminal event and echo published for the
\* instance then reaches the socket as one event, an output record being added
\* once to what it received; one detach takes the socket out of the room.
C37_JoinIsIdempotent ==
    [][/\ \A s \in DOMAIN rooms, i \in Ids :
              (Join(s, i) /\ i \in rooms[s]) => rooms' = rooms
       /\ \A s \in DOMAIN rooms, p \in DOMAIN procs :
              (OnData(p) /\ procs[p].id \in rooms[s]) =>
                  /\ delivered'[s] =
                         Append(delivered[s], Received(p, procs[p].produced + 1))
                  /\ Cardinality({n \in DOMAIN emits' :
                                      s \in Receivers(emits'[n], rooms')}) = 1
       /\ \A s \in DOMAIN rooms, p \in DOMAIN procs, st \in ExitStatuses :
              (OnExit(p, st) /\ procs[p].id \in rooms[s]) =>
                  Cardinality({n \in DOMAIN emits' :
                                  s \in Receivers(emits'[n], rooms')}) = 1
       /\ \A s \in DOMAIN rooms, i \in Ids, c \in Commands :
              (ConsoleCommand(s, i, c) /\ i \in rooms[s] /\ i \in DOMAIN activeServers) =>
                  Cardinality({n \in DOMAIN emits' :
                                  s \in Receivers(emits'[n], rooms')}) = 1
       /\ \A s \in DOMAIN rooms, i \in Ids :
              Detach(s, i) => i \notin rooms'[s]]_vars

\* both clients are in the room of A, which has written one record; s1 has just
\* been sent the replay of a join-server, and each of them has the record once
C37_Witness ==
    /\ DOMAIN rooms = Clients
    /\ \A s \in Clients : "A" \in rooms[s]
    /\ Len(emits) = 2
    /\ emits[1].to = "s1"
    /\ emits[1].type = "log"
    /\ \A s \in Clients : Len(DeliveredOf(s, "A")) = 1
====
